---- MODULE Spec2Model ----
(***************************************************************************)
(* Model of bot.py: a Telegram bot that escalates overdue Bitrix24 leads.  *)
(*                                                                         *)
(* One asyncio event loop runs every handler.  A handler runs without      *)
(* interruption from one await that really suspends to the next, so each   *)
(* action below is one such run.  The three gateway functions use the      *)
(* synchronous requests.post: they contain no suspension point and are     *)
(* evaluated inside the action that calls them.                            *)
(*                                                                         *)
(* Strings of the program that are taken apart by the code (callback_data) *)
(* are sequences of tokens; ":" is a token of its own.  The Russian texts  *)
(* of the program appear by their English meaning.                         *)
(***************************************************************************)
EXTENDS Naturals, Sequences, FiniteSets

\* ------------------------------------------------------------------ bounds
\* Loop tasks that exist at the same time (not yet finished or not yet reused).
MaxLoops == 2
\* /check_leads handlers in progress at the same time.
MaxChecks == 1
\* Lead notifications the operator's chat holds.
MaxNotifs == 2
\* Action taps whose handlers are in progress at the same time.
MaxTaps == 2
\* Operator inputs (commands and taps) in one behaviour.
MaxInputs == 3

LoopIds == 1..MaxLoops
CheckIds == 1..MaxChecks
TapIds == 1..MaxTaps

\* ------------------------------------------------------------------ leads
\* A lead as crm.lead.list returns it with select ID, TITLE, PHONE.  PHONE is
\* a list of {VALUE: ...}; the key is missing when the lead has no phone.
LeadA == [ID |-> <<"42">>, TITLE |-> "Acme Corp", hasPHONE |-> FALSE, PHONE |-> <<>>]
LeadB == [ID |-> <<"7", ":", "1">>, TITLE |-> "Globex", hasPHONE |-> TRUE,
          PHONE |-> <<[VALUE |-> "+15550100"]>>]

\* The result lists the CRM answers with, in DATE_CREATE order.
LeadLists == {<<LeadA>>, <<LeadA, LeadB>>}

\* ------------------------------------------------------------------ HTTP
\* What requests.post meets.  net: the transport delivered a response;
\* status: the HTTP status; json: the body parses as JSON; shape: the type of
\* the JSON value; hasResult/result: the "result" key of a JSON object.
Resp(net, status, json, shape, hasResult, result) ==
    [net |-> net, status |-> status, json |-> json, shape |-> shape,
     hasResult |-> hasResult, result |-> result]

TransportFailure == Resp(FALSE, 0, FALSE, "none", FALSE, <<>>)

\* Every answer of the remote side: no answer at all, or a status with a body
\* that is not JSON, JSON null, a JSON object without "result" (an error
\* payload), or a JSON object with a "result" list.
Responses ==
    {TransportFailure}
      \cup {Resp(TRUE, s, FALSE, "none", FALSE, <<>>) : s \in {200, 401, 500}}
      \cup {Resp(TRUE, s, TRUE, "null", FALSE, <<>>) : s \in {200, 401, 500}}
      \cup {Resp(TRUE, s, TRUE, "dict", FALSE, <<>>) : s \in {200, 401, 500}}
      \cup {Resp(TRUE, s, TRUE, "dict", TRUE, ls) :
                s \in {200, 401, 500}, ls \in {<<>>} \cup LeadLists}

\* The remote call failed: transport failure, non-success status, malformed
\* body, or a body that is not an object carrying "result" (error payload).
RemoteFailed(r) ==
    ~r.net \/ r.status >= 400 \/ ~r.json \/ r.shape # "dict" \/ ~r.hasResult

\* requests.post, raise_for_status and response.json() raise a
\* requests.exceptions.RequestException: ConnectionError, HTTPError and
\* (requests >= 2.27) JSONDecodeError all derive from it.
RequestException(r) == ~r.net \/ r.status >= 400 \/ ~r.json

\* A gateway function's outcome: kind "raise" (an exception leaves the
\* function), "None", "list" (a list of leads) or "json" (the decoded body).
Outcome(kind, val) == [kind |-> kind, val |-> val]

get_overdue_leads(r) ==
    IF RequestException(r) THEN Outcome("None", <<>>)
    ELSE IF r.shape # "dict" THEN Outcome("raise", <<>>)  \* 'result' in None: TypeError
    ELSE IF r.hasResult /\ r.result # <<>> THEN Outcome("list", r.result)
    ELSE Outcome("list", <<>>)

add_comment_to_lead_raises(lead_id, text, r) ==
    IF RequestException(r) THEN Outcome("raise", <<>>) ELSE Outcome("json", <<>>)

add_comment_to_lead(lead_id, text, r) ==
    IF RequestException(r) THEN Outcome("None", <<>>) ELSE Outcome("json", <<>>)

create_task_for_lead(lead_id, r) ==
    IF RequestException(r) THEN Outcome("None", <<>>) ELSE Outcome("json", <<>>)

\* ------------------------------------------------------------------ chat
\* callback_data is <kind>:<lead id>.
CallbackData(kind, lead_id) == <<kind, ":">> \o lead_id

\* Mutant: the third button repeats the payload of the second.
get_lead_keyboard_repeats_wrote(lead_id) ==
    <<CallbackData("called", lead_id), CallbackData("wrote", lead_id),
      CallbackData("wrote", lead_id)>>

\* Lines 113-120.
get_lead_keyboard(lead_id) ==
    <<CallbackData("called", lead_id), CallbackData("wrote", lead_id),
      CallbackData("delay", lead_id)>>

\* lead.get('PHONE', [{}])[0].get('VALUE', 'not provided')
LeadPhone(lead) == IF lead.hasPHONE THEN lead.PHONE[1].VALUE ELSE "not provided"

\* The text send_leads_to_manager renders; status holds the status lines the
\* action handlers append.
LeadText(lead) ==
    [id |-> lead.ID, title |-> lead.TITLE, phone |-> LeadPhone(lead), status |-> <<>>]

\* The message bot.send_message delivers for a lead.
Notification(lead) == [text |-> LeadText(lead), buttons |-> get_lead_keyboard(lead.ID)]

\* ------------------------------------------------------------------ state
VARIABLES
    periodic_check_task,  \* the module's global: 0 (None) or the id of a loop task
    tasks,                \* the asyncio tasks created for periodic_check
    checks,               \* the manual_check handlers
    chat,                 \* the lead notifications in the operator's chat
    callbacks,            \* the callback queries (action taps) and their handlers
    reply,                \* the text of the last message.answer of a command
    wire,                 \* the last exchange of a gateway function called alone
    inputs                \* the operator's commands and taps so far

vars == <<periodic_check_task, tasks, checks, chat, callbacks, reply, wire, inputs>>

\* The operator sends one more command or tap.
Input == inputs < MaxInputs /\ inputs' = inputs + 1

\* ------------------------------------------------------------------ cycle
\* One run of send_leads_to_manager.  res: what the fetch gave ("none" before
\* any fetch, "raised", "error", "empty", "leads"); leads: the fetched list;
\* calls: the lead ids bot.send_message was called for, in order; failed: a
\* send raised; diag: the diagnostic messages bot.send_message was called for.
Cycle(res, leads, calls, failed, diag) ==
    [res |-> res, leads |-> leads, calls |-> calls, failed |-> failed, diag |-> diag]

NoCycle == Cycle("none", <<>>, <<>>, FALSE, 0)

\* Where a run of the coroutine stops: "raised" (an exception leaves it),
\* "returned", or suspended in bot.send_message: "diag" or "send".
Stop(at, cyc) == [at |-> at, cyc |-> cyc]

\* Mutant: the empty list is treated like the error result.
send_leads_to_manager_empty_is_error(r) ==
    LET o == get_overdue_leads(r) IN
    IF o.kind = "raise" THEN Stop("raised", Cycle("raised", <<>>, <<>>, FALSE, 0))
    ELSE IF o.kind = "None" \/ o.val = <<>>
         THEN Stop("diag", Cycle(IF o.kind = "None" THEN "error" ELSE "empty",
                                 <<>>, <<>>, FALSE, 1))
    ELSE Stop("send", Cycle("leads", o.val, <<o.val[1].ID>>, FALSE, 0))

\* Lines 124-144: from the call to the first await that suspends.
send_leads_to_manager(r) ==
    LET o == get_overdue_leads(r) IN
    IF o.kind = "raise" THEN Stop("raised", Cycle("raised", <<>>, <<>>, FALSE, 0))
    ELSE IF o.kind = "None" THEN Stop("diag", Cycle("error", <<>>, <<>>, FALSE, 1))
    ELSE IF o.val = <<>> THEN Stop("returned", Cycle("empty", <<>>, <<>>, FALSE, 0))
    ELSE Stop("send", Cycle("leads", o.val, <<o.val[1].ID>>, FALSE, 0))

\* Lines 132-149: bot.send_message for a lead came back (ok) or raised.
send_message_done(cyc, ok) ==
    IF ~ok THEN Stop("raised", [cyc EXCEPT !.failed = TRUE])
    ELSE IF Len(cyc.calls) < Len(cyc.leads)
         THEN Stop("send", [cyc EXCEPT !.calls = Append(@, cyc.leads[Len(cyc.calls) + 1].ID)])
         ELSE Stop("returned", cyc)

\* Line 126-127: the diagnostic message came back (ok) or raised.
diag_message_done(cyc, ok) == Stop(IF ok THEN "returned" ELSE "raised", cyc)

\* The lead whose message is in flight.
LeadInFlight(cyc) == cyc.leads[Len(cyc.calls)]

\* ------------------------------------------------------------------ tasks
\* A loop task.  pc: "none" (no task), "ready" (scheduled to run: just
\* created, or its sleep ended), "send"/"diag" (suspended in bot.send_message
\* inside a cycle), "sleep" (suspended in asyncio.sleep), "done".  cancel:
\* Task.cancel() was called and CancelledError is not yet thrown into it.
Task(pc, cancel, cyc) == [pc |-> pc, cancel |-> cancel, cyc |-> cyc]

Suspended == {"ready", "send", "diag", "sleep"}

\* task.done()
Done(t) == tasks[t].pc = "done"

\* Mutant: no try/except around the cycle.
periodic_check_no_except(stop) ==
    IF stop.at = "raised" THEN Task("done", FALSE, stop.cyc)
    ELSE IF stop.at = "returned" THEN Task("sleep", FALSE, stop.cyc)
    ELSE Task(stop.at, FALSE, stop.cyc)

\* Lines 26-32: the loop body around a run of the cycle: an Exception is
\* logged, and a cycle that ended either way is followed by asyncio.sleep.
periodic_check(stop) ==
    IF stop.at \in {"raised", "returned"} THEN Task("sleep", FALSE, stop.cyc)
    ELSE Task(stop.at, FALSE, stop.cyc)

\* Mutant: CancelledError is caught like an Exception (as before Python 3.8).
Cancelled_caught(task) == Task("sleep", FALSE, task.cyc)

\* CancelledError is thrown into the task at its await.  It is a
\* BaseException: `except Exception` (line 29) lets it end the task.
Cancelled(task) == Task("done", FALSE, NoCycle)

\* The lowest id that holds no unfinished task.
FreeLoop == CHOOSE t \in LoopIds :
    /\ tasks[t].pc \in {"none", "done"}
    /\ \A u \in LoopIds : tasks[u].pc \in {"none", "done"} => t <= u

HasRoom == Len(chat) < MaxNotifs

\* ------------------------------------------------------------------ callbacks
\* A callback query and its handler.  pc: "none", "new" (the update waits for
\* its handler), "edit" (suspended in edit_text), "answer" (suspended in
\* callback.answer).  msg: the message tapped; data: the button's
\* callback_data; text: callback.message.text, the text when tapped; gw: the
\* gateway calls the handler made; edit: the text passed to edit_text; ack:
\* the lead id named in the acknowledgment.
Callback(pc, msg, data, text, gw, edit, ack) ==
    [pc |-> pc, msg |-> msg, data |-> data, text |-> text, gw |-> gw,
     edit |-> edit, ack |-> ack]

NoText == [id |-> <<>>, title |-> "", phone |-> "", status |-> <<>>]
NoCallback == Callback("none", 0, <<>>, NoText, <<>>, NoText, <<>>)

\* One gateway call: the function, its arguments, and what it gave back.
GwCall(op, lead_id, text, out) == [op |-> op, id |-> lead_id, text |-> text, out |-> out.kind]

\* str.startswith
StartsWith(data, prefix) ==
    Len(data) >= Len(prefix) /\ SubSeq(data, 1, Len(prefix)) = prefix

\* str.split(':'): the pieces between the ":" tokens.
RECURSIVE Split(_)
Split(data) ==
    IF \A i \in 1..Len(data) : data[i] # ":" THEN <<data>>
    ELSE LET i == CHOOSE k \in 1..Len(data) :
                     data[k] = ":" /\ \A j \in 1..(k - 1) : data[j] # ":"
         IN <<SubSeq(data, 1, i - 1)>> \o Split(SubSeq(data, i + 1, Len(data)))

\* callback.data.split(':')[1]
LeadIdOf(data) == Split(data)[2]

\* f"{callback.message.text}\n\n*<status line>*"
WithStatus(text, label) == [text EXCEPT !.status = Append(@, label)]

\* The lowest free callback slot.
FreeTap == CHOOSE c \in TapIds :
    /\ callbacks[c].pc = "none"
    /\ \A d \in TapIds : callbacks[d].pc = "none" => c <= d

Init ==
    /\ periodic_check_task = 0
    /\ tasks = [t \in LoopIds |-> Task("none", FALSE, NoCycle)]
    /\ checks = [c \in CheckIds |-> [pc |-> "idle", cyc |-> NoCycle]]
    /\ chat = <<>>
    /\ callbacks = [c \in TapIds |-> NoCallback]
    /\ reply = "none"
    /\ wire = [op |-> "none", id |-> <<>>, text |-> "", resp |-> TransportFailure,
               out |-> Outcome("None", <<>>)]
    /\ inputs = 0

\* ------------------------------------------------------------------ commands
\* Mutant: /start also resets the global.
send_welcome_resets ==
    /\ Input
    /\ reply' = "welcome"
    /\ periodic_check_task' = 0
    /\ UNCHANGED <<tasks, checks, chat, callbacks, wire>>

\* Lines 179-184.
send_welcome ==
    /\ Input
    /\ reply' = "welcome"
    /\ UNCHANGED <<periodic_check_task, tasks, checks, chat, callbacks, wire>>

\* Mutant: no check of the running task before create_task.
turn_on_periodic_check_unguarded ==
    /\ Input
    /\ \E t \in LoopIds : tasks[t].pc \in {"none", "done"}
    /\ tasks' = [tasks EXCEPT ![FreeLoop] = Task("ready", FALSE, NoCycle)]
    /\ periodic_check_task' = FreeLoop
    /\ reply' = "on"
    /\ UNCHANGED <<checks, chat, callbacks, wire>>

\* Lines 191-200.
turn_on_periodic_check ==
    /\ Input
    /\ IF periodic_check_task # 0 /\ ~Done(periodic_check_task)
       THEN /\ reply' = "already on"
            /\ UNCHANGED <<periodic_check_task, tasks>>
       ELSE /\ \E t \in LoopIds : tasks[t].pc \in {"none", "done"}
            /\ tasks' = [tasks EXCEPT ![FreeLoop] = Task("ready", FALSE, NoCycle)]
            /\ periodic_check_task' = FreeLoop
            /\ reply' = "on"
    /\ UNCHANGED <<checks, chat, callbacks, wire>>

\* Mutant: the task is dropped without cancel().
turn_off_periodic_check_no_cancel ==
    /\ Input
    /\ IF periodic_check_task = 0 \/ Done(periodic_check_task)
       THEN /\ reply' = "already off"
            /\ UNCHANGED <<periodic_check_task, tasks>>
       ELSE /\ periodic_check_task' = 0
            /\ reply' = "off"
            /\ UNCHANGED tasks
    /\ UNCHANGED <<checks, chat, callbacks, wire>>

\* Mutant: the global is not cleared after cancel().
turn_off_periodic_check_keeps_handle ==
    /\ Input
    /\ IF periodic_check_task = 0 \/ Done(periodic_check_task)
       THEN /\ reply' = "already off"
            /\ UNCHANGED <<periodic_check_task, tasks>>
       ELSE /\ tasks' = [tasks EXCEPT ![periodic_check_task].cancel = TRUE]
            /\ reply' = "off"
            /\ UNCHANGED periodic_check_task
    /\ UNCHANGED <<checks, chat, callbacks, wire>>

\* Lines 202-212.
turn_off_periodic_check ==
    /\ Input
    /\ IF periodic_check_task = 0 \/ Done(periodic_check_task)
       THEN /\ reply' = "already off"
            /\ UNCHANGED <<periodic_check_task, tasks>>
       ELSE /\ tasks' = [tasks EXCEPT ![periodic_check_task].cancel = TRUE]
            /\ periodic_check_task' = 0
            /\ reply' = "off"
    /\ UNCHANGED <<checks, chat, callbacks, wire>>

\* ------------------------------------------------------------------ the loop
\* Mutant: the loop's cycle waits while a manual check's cycle is in progress.
LoopRun_exclusive(t) ==
    /\ tasks[t].pc = "ready" /\ ~tasks[t].cancel
    /\ \A c \in CheckIds : checks[c].pc \notin {"send", "diag"}
    /\ \E stop \in {send_leads_to_manager(r) : r \in Responses} :
          tasks' = [tasks EXCEPT ![t] = periodic_check(stop)]
    /\ UNCHANGED <<periodic_check_task, checks, chat, callbacks, reply, wire, inputs>>

\* The task runs from "ready": one call of send_leads_to_manager up to its
\* first suspension, or through to asyncio.sleep.
LoopRun(t) ==
    /\ tasks[t].pc = "ready" /\ ~tasks[t].cancel
    /\ \E stop \in {send_leads_to_manager(r) : r \in Responses} :
          tasks' = [tasks EXCEPT ![t] = periodic_check(stop)]
    /\ UNCHANGED <<periodic_check_task, checks, chat, callbacks, reply, wire, inputs>>

\* Mutant: a lead that already has a notification in the chat gets no new one.
LoopSendDone_dedup(t) ==
    /\ tasks[t].pc = "send" /\ ~tasks[t].cancel
    /\ \E ok \in BOOLEAN :
          /\ ok => HasRoom
          /\ chat' = IF ok /\ \A n \in 1..Len(chat) :
                                  chat[n].text.id # LeadInFlight(tasks[t].cyc).ID
                     THEN Append(chat, Notification(LeadInFlight(tasks[t].cyc)))
                     ELSE chat
          /\ tasks' = [tasks EXCEPT ![t] = periodic_check(send_message_done(tasks[t].cyc, ok))]
    /\ UNCHANGED <<periodic_check_task, checks, callbacks, reply, wire, inputs>>

\* bot.send_message for a lead ends: delivered, or raised.
LoopSendDone(t) ==
    /\ tasks[t].pc = "send" /\ ~tasks[t].cancel
    /\ \E ok \in BOOLEAN :
          /\ ok => HasRoom
          /\ chat' = IF ok THEN Append(chat, Notification(LeadInFlight(tasks[t].cyc)))
                     ELSE chat
          /\ tasks' = [tasks EXCEPT ![t] = periodic_check(send_message_done(tasks[t].cyc, ok))]
    /\ UNCHANGED <<periodic_check_task, checks, callbacks, reply, wire, inputs>>

\* bot.send_message for the diagnostic ends.
LoopDiagDone(t) ==
    /\ tasks[t].pc = "diag" /\ ~tasks[t].cancel
    /\ \E ok \in BOOLEAN :
          tasks' = [tasks EXCEPT ![t] = periodic_check(diag_message_done(tasks[t].cyc, ok))]
    /\ UNCHANGED <<periodic_check_task, checks, chat, callbacks, reply, wire, inputs>>

\* asyncio.sleep ends; the next iteration is scheduled.
LoopWake(t) ==
    /\ tasks[t].pc = "sleep" /\ ~tasks[t].cancel
    /\ tasks' = [tasks EXCEPT ![t] = Task("ready", FALSE, NoCycle)]
    /\ UNCHANGED <<periodic_check_task, checks, chat, callbacks, reply, wire, inputs>>

\* The cancelled task is resumed with CancelledError.  A lead message that was
\* in flight may have reached the chat or not.
LoopCancelled(t) ==
    /\ tasks[t].pc \in Suspended /\ tasks[t].cancel
    /\ tasks' = [tasks EXCEPT ![t] = Cancelled(tasks[t])]
    /\ \/ UNCHANGED chat
       \/ /\ tasks[t].pc = "send" /\ HasRoom
          /\ chat' = Append(chat, Notification(LeadInFlight(tasks[t].cyc)))
    /\ UNCHANGED <<periodic_check_task, checks, callbacks, reply, wire, inputs>>

\* ------------------------------------------------------------------ manual check
\* Line 188: the handler starts and awaits message.answer.
manual_check(c) ==
    /\ Input
    /\ checks[c].pc = "idle"
    /\ checks' = [checks EXCEPT ![c] = [pc |-> "answer", cyc |-> NoCycle]]
    /\ reply' = "checking"
    /\ UNCHANGED <<periodic_check_task, tasks, chat, callbacks, wire>>

\* The handler around a run of the cycle: nothing catches, nothing follows.
ManualAfter(stop) ==
    [pc |-> IF stop.at \in {"raised", "returned"} THEN "idle" ELSE stop.at, cyc |-> stop.cyc]

\* Line 189: message.answer ended; if it did not raise the cycle runs.
CheckAnswered(c) ==
    /\ checks[c].pc = "answer"
    /\ \/ checks' = [checks EXCEPT ![c] = [pc |-> "idle", cyc |-> NoCycle]]
       \/ \E stop \in {send_leads_to_manager(r) : r \in Responses} :
             checks' = [checks EXCEPT ![c] = ManualAfter(stop)]
    /\ UNCHANGED <<periodic_check_task, tasks, chat, callbacks, reply, wire, inputs>>

CheckSendDone(c) ==
    /\ checks[c].pc = "send"
    /\ \E ok \in BOOLEAN :
          /\ ok => HasRoom
          /\ chat' = IF ok THEN Append(chat, Notification(LeadInFlight(checks[c].cyc)))
                     ELSE chat
          /\ checks' = [checks EXCEPT ![c] = ManualAfter(send_message_done(checks[c].cyc, ok))]
    /\ UNCHANGED <<periodic_check_task, tasks, callbacks, reply, wire, inputs>>

CheckDiagDone(c) ==
    /\ checks[c].pc = "diag"
    /\ \E ok \in BOOLEAN :
          checks' = [checks EXCEPT ![c] = ManualAfter(diag_message_done(checks[c].cyc, ok))]
    /\ UNCHANGED <<periodic_check_task, tasks, chat, callbacks, reply, wire, inputs>>

\* ------------------------------------------------------------------ action taps
\* The operator taps button b of message n; Telegram delivers a callback
\* query carrying the button's data and the message as it is then.
Tap(n, b) ==
    /\ Input
    /\ n \in 1..Len(chat) /\ b \in 1..Len(chat[n].buttons)
    /\ \E c \in TapIds : callbacks[c].pc = "none"
    /\ callbacks' = [callbacks EXCEPT ![FreeTap] =
          Callback("new", n, chat[n].buttons[b], chat[n].text, <<>>, NoText, <<>>)]
    /\ UNCHANGED <<periodic_check_task, tasks, checks, chat, reply, wire>>

\* A handler from its start to its first suspension, in edit_text: `out` is
\* what its gateway call gave, `call` the record of that call.
HandlerStart(cb, call, out, label) ==
    IF out.kind = "raise" THEN NoCallback
    ELSE [cb EXCEPT !.pc = "edit", !.gw = Append(@, call),
                    !.edit = WithStatus(cb.text, label), !.ack = call.id]

\* Mutant: the handler for "wrote" records a call, like the one above it.
wrote_as_called(cb, r) ==
    LET lead_id == LeadIdOf(cb.data)
        out == add_comment_to_lead(lead_id, "manager called the client", r)
    IN HandlerStart(cb, GwCall("add_comment_to_lead", lead_id, "manager called the client", out),
                    out, "resolved (call)")

\* Lines 154-156.
called(cb, r) ==
    LET lead_id == LeadIdOf(cb.data)
        out == add_comment_to_lead(lead_id, "manager called the client", r)
    IN HandlerStart(cb, GwCall("add_comment_to_lead", lead_id, "manager called the client", out),
                    out, "resolved (call)")

\* Lines 163-165.
wrote(cb, r) ==
    LET lead_id == LeadIdOf(cb.data)
        out == add_comment_to_lead(lead_id, "manager wrote to the client", r)
    IN HandlerStart(cb, GwCall("add_comment_to_lead", lead_id, "manager wrote to the client", out),
                    out, "resolved (wrote)")

\* Lines 172-174.
delay(cb, r) ==
    LET lead_id == LeadIdOf(cb.data)
        out == create_task_for_lead(lead_id, r)
    IN HandlerStart(cb, GwCall("create_task_for_lead", lead_id, "", out),
                    out, "callback task created")

\* Lines 152-156: the filter F.data.startswith('called:') and the handler.
process_callback_called(c) ==
    /\ callbacks[c].pc = "new" /\ StartsWith(callbacks[c].data, <<"called", ":">>)
    /\ \E cb \in {called(callbacks[c], r) : r \in Responses} :
          callbacks' = [callbacks EXCEPT ![c] = cb]
    /\ UNCHANGED <<periodic_check_task, tasks, checks, chat, reply, wire, inputs>>

\* Lines 161-165.
process_callback_wrote(c) ==
    /\ callbacks[c].pc = "new" /\ StartsWith(callbacks[c].data, <<"wrote", ":">>)
    /\ \E cb \in {wrote(callbacks[c], r) : r \in Responses} :
          callbacks' = [callbacks EXCEPT ![c] = cb]
    /\ UNCHANGED <<periodic_check_task, tasks, checks, chat, reply, wire, inputs>>

\* Lines 170-174.
process_callback_delay(c) ==
    /\ callbacks[c].pc = "new" /\ StartsWith(callbacks[c].data, <<"delay", ":">>)
    /\ \E cb \in {delay(callbacks[c], r) : r \in Responses} :
          callbacks' = [callbacks EXCEPT ![c] = cb]
    /\ UNCHANGED <<periodic_check_task, tasks, checks, chat, reply, wire, inputs>>

\* The message as edit_text(text, parse_mode) leaves it: no reply_markup is
\* passed, so the edited message carries no buttons.
Edited(cb) == [text |-> cb.edit, buttons |-> <<>>]

\* Mutant: the handler goes on to callback.answer when edit_text raised.
EditDone_acks_anyway(c) ==
    /\ callbacks[c].pc = "edit"
    /\ \/ /\ chat[callbacks[c].msg] # Edited(callbacks[c])
          /\ chat' = [chat EXCEPT ![callbacks[c].msg] = Edited(callbacks[c])]
          /\ callbacks' = [callbacks EXCEPT ![c].pc = "answer"]
       \/ /\ callbacks' = [callbacks EXCEPT ![c].pc = "answer"]
          /\ UNCHANGED chat
    /\ UNCHANGED <<periodic_check_task, tasks, checks, reply, wire, inputs>>

\* edit_text ends.  It raises when Telegram refuses it, as it does for an
\* edit that changes nothing; then the handler ends without acknowledging.
\* Otherwise the message is rewritten and callback.answer is called
\* (lines 156-158, 165-167, 174-176).
EditDone(c) ==
    /\ callbacks[c].pc = "edit"
    /\ \/ /\ chat[callbacks[c].msg] # Edited(callbacks[c])
          /\ chat' = [chat EXCEPT ![callbacks[c].msg] = Edited(callbacks[c])]
          /\ callbacks' = [callbacks EXCEPT ![c].pc = "answer"]
       \/ /\ callbacks' = [callbacks EXCEPT ![c] = NoCallback]
          /\ UNCHANGED chat
    /\ UNCHANGED <<periodic_check_task, tasks, checks, reply, wire, inputs>>

\* callback.answer ends (or raises): the handler is over.
AnswerDone(c) ==
    /\ callbacks[c].pc = "answer"
    /\ callbacks' = [callbacks EXCEPT ![c] = NoCallback]
    /\ UNCHANGED <<periodic_check_task, tasks, checks, chat, reply, wire, inputs>>

Next ==
    \/ send_welcome
    \/ turn_on_periodic_check
    \/ turn_off_periodic_check
    \/ \E t \in LoopIds : LoopRun(t)
    \/ \E t \in LoopIds : LoopSendDone(t)
    \/ \E t \in LoopIds : LoopDiagDone(t)
    \/ \E t \in LoopIds : LoopWake(t)
    \/ \E t \in LoopIds : LoopCancelled(t)
    \/ \E c \in CheckIds : manual_check(c)
    \/ \E c \in CheckIds : CheckAnswered(c)
    \/ \E c \in CheckIds : CheckSendDone(c)
    \/ \E c \in CheckIds : CheckDiagDone(c)
    \/ \E n \in 1..MaxNotifs, b \in 1..3 : Tap(n, b)
    \/ \E c \in TapIds : process_callback_called(c)
    \/ \E c \in TapIds : process_callback_wrote(c)
    \/ \E c \in TapIds : process_callback_delay(c)
    \/ \E c \in TapIds : EditDone(c)
    \/ \E c \in TapIds : AnswerDone(c)

Spec == Init /\ [][Next]_vars

\* The event loop runs every task that can run, timers fire, and a call to
\* Telegram ends (the session gives up after its timeout).
Fairness ==
    \A t \in LoopIds :
        /\ WF_vars(LoopRun(t))
        /\ WF_vars(LoopSendDone(t))
        /\ WF_vars(LoopDiagDone(t))
        /\ WF_vars(LoopWake(t))
        /\ WF_vars(LoopCancelled(t))

FairSpec == Spec /\ Fairness

\* ------------------------------------------------------------------ the gateway alone
\* The arguments the handlers pass to the gateway.
LeadIdArgs == {<<"42">>, <<"7">>}
CommentArgs == {"manager called the client", "manager wrote to the client"}

Exchange(op, lead_id, text, r, out) ==
    [op |-> op, id |-> lead_id, text |-> text, resp |-> r, out |-> out]

CallGetOverdueLeads ==
    /\ \E r \in Responses :
          wire' = Exchange("get_overdue_leads", <<>>, "", r, get_overdue_leads(r))
    /\ UNCHANGED <<periodic_check_task, tasks, checks, chat, callbacks, reply, inputs>>

CallAddComment ==
    /\ \E r \in Responses, i \in LeadIdArgs, x \in CommentArgs :
          wire' = Exchange("add_comment_to_lead", i, x, r, add_comment_to_lead(i, x, r))
    /\ UNCHANGED <<periodic_check_task, tasks, checks, chat, callbacks, reply, inputs>>

CallCreateTask ==
    /\ \E r \in Responses, i \in LeadIdArgs :
          wire' = Exchange("create_task_for_lead", i, "", r, create_task_for_lead(i, r))
    /\ UNCHANGED <<periodic_check_task, tasks, checks, chat, callbacks, reply, inputs>>

GatewayNext == CallGetOverdueLeads \/ CallAddComment \/ CallCreateTask

GatewaySpec == Init /\ [][GatewayNext]_vars

\* ------------------------------------------------------------------ a call that hangs
\* get_overdue_leads calls requests.post without a timeout (line 50), from the
\* coroutine, on the thread of the event loop: until the remote side answers
\* the thread is inside requests.post.  pc "post" marks the task or the manual
\* check whose cycle is inside that call.
InPost ==
    \/ \E t \in LoopIds : tasks[t].pc = "post"
    \/ \E c \in CheckIds : checks[c].pc = "post"

\* Lines 28, 124, 50: the loop's cycle enters requests.post.
LoopPost(t) ==
    /\ ~InPost
    /\ tasks[t].pc = "ready" /\ ~tasks[t].cancel
    /\ tasks' = [tasks EXCEPT ![t].pc = "post"]
    /\ UNCHANGED <<periodic_check_task, checks, chat, callbacks, reply, wire, inputs>>

\* The remote side answers at last: the cycle goes on as in LoopRun.
LoopPostReturns(t) ==
    /\ tasks[t].pc = "post"
    /\ \E stop \in {send_leads_to_manager(r) : r \in Responses} :
          tasks' = [tasks EXCEPT ![t] = periodic_check(stop)]
    /\ UNCHANGED <<periodic_check_task, checks, chat, callbacks, reply, wire, inputs>>

\* Lines 189, 124, 50: the manual check's cycle enters requests.post.
CheckPost(c) ==
    /\ ~InPost
    /\ checks[c].pc = "answer"
    /\ checks' = [checks EXCEPT ![c].pc = "post"]
    /\ UNCHANGED <<periodic_check_task, tasks, chat, callbacks, reply, wire, inputs>>

CheckPostReturns(c) ==
    /\ checks[c].pc = "post"
    /\ \E stop \in {send_leads_to_manager(r) : r \in Responses} :
          checks' = [checks EXCEPT ![c] = ManualAfter(stop)]
    /\ UNCHANGED <<periodic_check_task, tasks, chat, callbacks, reply, wire, inputs>>

\* The event loop takes the next ready handler or task only when its thread
\* is not inside a call.
EventLoopStep == ~InPost /\ Next

HangNext ==
    \/ EventLoopStep
    \/ \E t \in LoopIds : LoopPost(t)
    \/ \E t \in LoopIds : LoopPostReturns(t)
    \/ \E c \in CheckIds : CheckPost(c)
    \/ \E c \in CheckIds : CheckPostReturns(c)

HangSpec == Init /\ [][HangNext]_vars

\* ------------------------------------------------------------------ claims
\* The loop tasks that can still run a cycle: created, not finished, and not
\* cancelled.
ActiveLoops == {t \in LoopIds : tasks[t].pc \in Suspended /\ ~tasks[t].cancel}

\* C1: at every instant at most one loop task that can still invoke a cycle
\* exists, and it is the one periodic_check_task names.
C1_AtMostOneActiveLoop ==
    /\ Cardinality(ActiveLoops) <= 1
    /\ ActiveLoops = IF periodic_check_task = 0 THEN {} ELSE {periodic_check_task}

\* A disable was followed by an enable while the old loop is still suspended
\* in the middle of a cycle.
C1_Witness ==
    \E t, u \in LoopIds :
        /\ t # u
        /\ tasks[t].cancel /\ tasks[t].pc = "send"
        /\ u \in ActiveLoops /\ periodic_check_task = u

\* Task t invokes send_leads_to_manager in this step.
InvokesCycle(t) == tasks[t].pc = "ready" /\ tasks'[t].pc \in {"send", "diag", "sleep"}

\* Task t calls bot.send_message for a lead in this step.
CallsSend(t) ==
    /\ tasks'[t].pc = "send"
    /\ tasks[t].pc # "send" \/ tasks'[t].cyc.calls # tasks[t].cyc.calls

\* C2: a loop task that was cancelled, or that periodic_check_task no longer
\* names, never invokes another cycle and never calls bot.send_message for
\* another lead; while the scheduler is stopped no task does.
C2_NoCycleAfterStop ==
    [][\A t \in LoopIds :
          (tasks[t].cancel \/ periodic_check_task # t)
              => ~InvokesCycle(t) /\ ~CallsSend(t)]_vars

\* The scheduler was stopped while a cycle with leads still to send was
\* suspended in a send.
C2_Witness ==
    /\ periodic_check_task = 0
    /\ \E t \in LoopIds :
          /\ tasks[t].cancel /\ tasks[t].pc = "send"
          /\ Len(tasks[t].cyc.calls) < Len(tasks[t].cyc.leads)

\* The cycles that have ended, with what they did.
EndedCycles ==
    {tasks[t].cyc : t \in {u \in LoopIds : tasks[u].pc = "sleep"}}
      \cup {checks[c].cyc : c \in {d \in CheckIds : checks[d].pc = "idle"}}

\* Every cycle, ended or in progress.
AllCycles == {tasks[t].cyc : t \in LoopIds} \cup {checks[c].cyc : c \in CheckIds}

\* The ids of a list of leads, in order.
Ids(leads) == [i \in 1..Len(leads) |-> leads[i].ID]

\* C3 as stated: a cycle over N >= 1 leads makes N sends, whether or not one of
\* them fails.
C3_EveryLeadGetsItsSend ==
    \A cyc \in EndedCycles : cyc.res = "leads" => Len(cyc.calls) = Len(cyc.leads)

\* C4: if the scheduler stays Running, cycles are invoked again and again,
\* whatever the cycles' outcomes.
C4_CyclesForever ==
    <>[](periodic_check_task # 0) => []<><<\E t \in LoopIds : LoopRun(t)>>_vars

\* The loop sleeps after a cycle that ended with an exception.
C4_Witness ==
    \E t \in ActiveLoops :
        /\ tasks[t].pc = "sleep"
        /\ tasks[t].cyc.failed \/ tasks[t].cyc.res = "raised"

\* C5: a cycle whose fetch gave the error result calls bot.send_message for
\* one diagnostic and for no lead; one whose fetch gave the empty list calls
\* it for nothing; one whose fetch gave leads calls it for no diagnostic and
\* for the leads in the returned order, for all of them when no send fails.
C5_MessagesPerOutcome ==
    /\ \A cyc \in AllCycles :
          /\ cyc.res = "error" => cyc.diag = 1 /\ cyc.calls = <<>>
          /\ cyc.res = "empty" => cyc.diag = 0 /\ cyc.calls = <<>>
          /\ cyc.res = "leads" =>
                /\ cyc.diag = 0
                /\ Len(cyc.calls) \in 1..Len(cyc.leads)
                /\ cyc.calls = SubSeq(Ids(cyc.leads), 1, Len(cyc.calls))
    /\ \A cyc \in EndedCycles :
          cyc.res = "leads" /\ ~cyc.failed => cyc.calls = Ids(cyc.leads)

\* A loop's cycle over two leads has ended with both sends succeeding.
C5_Witness ==
    \E t \in LoopIds :
        /\ tasks[t].pc = "sleep"
        /\ tasks[t].cyc.res = "leads" /\ ~tasks[t].cyc.failed
        /\ tasks[t].cyc.calls = <<LeadA.ID, LeadB.ID>>
        /\ Len(chat) = 2

\* The notification was rewritten with a status line.
Resolved(n) == chat[n].text.status # <<>>

\* A handler for a tap on message n makes its gateway call in this step.
HandlesTap(n) ==
    \E c \in TapIds :
        /\ callbacks[c].pc = "new" /\ callbacks[c].msg = n
        /\ callbacks'[c].pc = "edit"

\* C6 as stated: once a notification is Resolved no tap on it causes another
\* gateway call or changes its text again.
C6_ResolvedIsTerminal ==
    [][\A n \in 1..Len(chat) : Resolved(n) => ~HandlesTap(n) /\ chat'[n] = chat[n]]_vars

\* The button tapped: the first token of callback_data.
Kind(cb) == cb.data[1]

\* The gateway call and the status line the table of the action handlers
\* gives for a button.
ExpectedOp(kind) ==
    IF kind = "delay" THEN "create_task_for_lead" ELSE "add_comment_to_lead"
ExpectedComment(kind) ==
    IF kind = "called" THEN "manager called the client"
    ELSE IF kind = "wrote" THEN "manager wrote to the client" ELSE ""
ExpectedLabel(kind) ==
    IF kind = "called" THEN "resolved (call)"
    ELSE IF kind = "wrote" THEN "resolved (wrote)" ELSE "callback task created"

\* C7: a handler makes exactly one gateway call, the one for its button, and
\* passes to edit_text the tapped text with exactly its button's status line
\* appended.
C7_OneMatchingCall ==
    \A c \in TapIds :
        callbacks[c].pc \in {"edit", "answer"} =>
            /\ Len(callbacks[c].gw) = 1
            /\ callbacks[c].gw[1].op = ExpectedOp(Kind(callbacks[c]))
            /\ callbacks[c].gw[1].text = ExpectedComment(Kind(callbacks[c]))
            /\ callbacks[c].edit.status
                  = Append(callbacks[c].text.status, ExpectedLabel(Kind(callbacks[c])))
            /\ [callbacks[c].edit EXCEPT !.status = <<>>]
                  = [callbacks[c].text EXCEPT !.status = <<>>]

\* Handlers for two different buttons are past their gateway calls.
C7_Witness ==
    \E c, d \in TapIds :
        /\ callbacks[c].pc = "answer" /\ Kind(callbacks[c]) = "delay"
        /\ callbacks[d].pc \in {"edit", "answer"} /\ Kind(callbacks[d]) = "wrote"

\* The handler's gateway call gave None: the remote call failed.
GatewayFailed(cb) == Len(cb.gw) = 1 /\ cb.gw[1].out = "None"

\* C8: a handler that starts always goes on to edit_text, whatever its
\* gateway call gave; and after a failed gateway call it ends only by
\* rewriting the message and calling callback.answer, or because edit_text
\* itself raised.
C8_FailureDoesNotAbort ==
    [][\A c \in TapIds :
          /\ (callbacks[c].pc = "new" /\ callbacks'[c].pc # "new")
                => callbacks'[c].pc = "edit"
          /\ (callbacks[c].pc = "edit" /\ GatewayFailed(callbacks[c])
                  /\ callbacks'[c].pc # "edit")
                => \/ /\ callbacks'[c].pc = "answer"
                      /\ chat'[callbacks[c].msg] = Edited(callbacks[c])
                   \/ /\ callbacks'[c].pc = "none"
                      /\ chat' = chat]_vars

\* After a failed gateway call the message is rewritten and the
\* acknowledgment is on its way.
C8_Witness ==
    \E c \in TapIds :
        /\ callbacks[c].pc = "answer" /\ GatewayFailed(callbacks[c])
        /\ chat[callbacks[c].msg] = Edited(callbacks[c])

\* C9 as stated: get_overdue_leads gives the error result for every failed
\* remote call, and the empty list only for a call that succeeded.
C9_FailureIsNeverEmpty ==
    wire.op = "get_overdue_leads" =>
        /\ RemoteFailed(wire.resp) => wire.out.kind = "None"
        /\ wire.out = Outcome("list", <<>>) => ~RemoteFailed(wire.resp)

\* C10 as stated: no gateway function lets an exception out.
C10_GatewayNeverRaises == wire.out.kind # "raise"

\* The event loop starts or completes the handling of a command or of an
\* action tap.
HandlesIncoming ==
    /\ ~InPost
    /\ \/ send_welcome
       \/ turn_on_periodic_check
       \/ turn_off_periodic_check
       \/ \E c \in CheckIds : manual_check(c)
       \/ \E n \in 1..MaxNotifs, b \in 1..3 : Tap(n, b)
       \/ \E c \in TapIds : process_callback_called(c)
       \/ \E c \in TapIds : process_callback_wrote(c)
       \/ \E c \in TapIds : process_callback_delay(c)
       \/ \E c \in TapIds : EditDone(c)
       \/ \E c \in TapIds : AnswerDone(c)

\* C11 as stated: while the remote call of a cycle is outstanding, the event
\* loop can still handle a command the operator sends, and can still run the
\* handler of a tap that waits.
C11_HungCallStallsOnlyItsCycle ==
    InPost /\ (inputs < MaxInputs \/ \E c \in TapIds : callbacks[c].pc # "none")
        => ENABLED HandlesIncoming

\* The scheduler is Running when a loop exists that can still invoke a cycle.
Running == ActiveLoops # {}

\* C12: an enable issued while the scheduler is Running creates no loop,
\* cancels none, leaves periodic_check_task as it is and replies "already
\* on"; every enable leaves exactly one active loop, and so does a second
\* enable for as long as no other command follows it.
C12_EnableIsIdempotent ==
    /\ [][turn_on_periodic_check =>
             /\ Cardinality(ActiveLoops') = 1
             /\ Running =>
                   /\ UNCHANGED <<tasks, periodic_check_task>>
                   /\ reply' = "already on"]_vars
    /\ [](reply = "already on" => Cardinality(ActiveLoops) = 1)

\* The second of two enables was answered while the loop is inside a cycle.
C12_Witness ==
    /\ reply = "already on"
    /\ \E t \in ActiveLoops : tasks[t].pc = "send" /\ periodic_check_task = t

\* C13: a disable issued while the scheduler is Stopped cancels nothing,
\* leaves periodic_check_task as it is and replies "already off"; so does a
\* disable that follows a disable with no other command between them.
C13_DisableIsIdempotent ==
    [][(turn_off_periodic_check /\ (~Running \/ reply \in {"off", "already off"})) =>
          /\ UNCHANGED <<tasks, periodic_check_task>>
          /\ reply' = "already off"]_vars

\* A disable was answered "already off" after an earlier disable cancelled a
\* loop that has not yet been resumed.
C13_Witness ==
    /\ reply = "already off"
    /\ periodic_check_task = 0
    /\ \E t \in LoopIds : tasks[t].cancel

\* A cycle that was suspended in bot.send_message for `lead` moves in this step.
SendEndsFor(lead) ==
    \/ \E t \in LoopIds :
          /\ tasks[t].pc = "send" /\ tasks'[t] # tasks[t]
          /\ LeadInFlight(tasks[t].cyc) = lead
    \/ \E c \in CheckIds :
          /\ checks[c].pc = "send" /\ checks'[c] # checks[c]
          /\ LeadInFlight(checks[c].cyc) = lead

\* C14: every message that arrives in the chat is the notification of the
\* lead whose send was in flight: it shows that lead's id, its title and its
\* phone (or "not provided" when the lead has none), no status line, and
\* exactly the buttons called:<id>, wrote:<id>, delay:<id>.
C14_NotificationShowsItsLead ==
    [][Len(chat') > Len(chat) =>
          \E lead \in {LeadA, LeadB} :
              LET m == chat'[Len(chat')] IN
              /\ SendEndsFor(lead)
              /\ m.text.id = lead.ID
              /\ m.text.title = lead.TITLE
              /\ m.text.phone = IF lead.hasPHONE THEN lead.PHONE[1].VALUE
                                ELSE "not provided"
              /\ m.text.status = <<>>
              /\ m.buttons = << <<"called", ":">> \o lead.ID,
                                <<"wrote", ":">> \o lead.ID,
                                <<"delay", ":">> \o lead.ID >>]_vars

\* The chat holds the notification of a lead without a phone, then the one of
\* a lead with a phone.
C14_Witness ==
    /\ Len(chat) = 2
    /\ chat[1].text.id = LeadA.ID /\ chat[1].text.phone = "not provided"
    /\ chat[2].text.id = LeadB.ID /\ chat[2].text.phone = "+15550100"
    /\ Len(chat[2].buttons) = 3

\* The cycles that are suspended in bot.send_message for a lead.
CyclesInSend ==
    {tasks[t].cyc : t \in {u \in LoopIds : tasks[u].pc = "send"}}
      \cup {checks[c].cyc : c \in {d \in CheckIds : checks[d].pc = "send"}}

Pending(m) == m.text.status = <<>> /\ Len(m.buttons) = 3

\* The send of an uncancelled cycle for `lead` comes back without raising in
\* this step.
SendSucceedsFor(lead) ==
    \/ \E t \in LoopIds :
          /\ tasks[t].pc = "send" /\ ~tasks[t].cancel /\ ~tasks'[t].cancel
          /\ tasks'[t] # tasks[t] /\ ~tasks'[t].cyc.failed
          /\ LeadInFlight(tasks[t].cyc) = lead
    \/ \E c \in CheckIds :
          /\ checks[c].pc = "send"
          /\ checks'[c] # checks[c] /\ ~checks'[c].cyc.failed
          /\ LeadInFlight(checks[c].cyc) = lead

C17_PayloadRoundTrips ==
    \A c \in TapIds :
        callbacks[c].pc \in {"edit", "answer"} =>
            /\ callbacks[c].gw[1].id = callbacks[c].text.id
            /\ callbacks[c].ack = callbacks[c].text.id

\* C18: a handler makes its gateway call, then rewrites the message, then
\* acknowledges.  It is suspended in edit_text only with its one gateway call
\* made; callback.answer is called only in the step in which edit_text comes
\* back with the message rewritten; when edit_text raises the handler ends
\* with the message as it was, without acknowledging; and no handler makes a
\* gateway call after its first one, so nothing takes the write back.
C18_CallThenRewriteThenAck ==
    [][\A c \in TapIds :
          /\ callbacks'[c].pc = "edit" /\ callbacks[c].pc # "edit" =>
                /\ callbacks[c].pc = "new"
                /\ callbacks[c].gw = <<>> /\ Len(callbacks'[c].gw) = 1
                /\ chat' = chat
          /\ callbacks'[c].pc = "answer" /\ callbacks[c].pc # "answer" =>
                /\ callbacks[c].pc = "edit"
                /\ Len(callbacks[c].gw) = 1
                /\ chat' # chat
                /\ chat'[callbacks[c].msg] = Edited(callbacks[c])
          /\ callbacks[c].pc = "edit" /\ chat'[callbacks[c].msg] = chat[callbacks[c].msg]
                  /\ callbacks'[c] # callbacks[c] =>
                /\ callbacks'[c].pc = "none"
                /\ Len(callbacks[c].gw) = 1
          /\ callbacks[c].pc \in {"edit", "answer"} =>
                callbacks'[c].gw = callbacks[c].gw \/ callbacks'[c].pc = "none"]_vars

\* One handler has rewritten the message and is acknowledging; a second
\* handler for the same button has written to the CRM and is in edit_text
\* with the same text, an edit Telegram refuses.
C18_Witness ==
    \E c, d \in TapIds :
        /\ c # d /\ callbacks[c].msg = callbacks[d].msg
        /\ callbacks[c].pc = "answer"
        /\ callbacks[d].pc = "edit" /\ callbacks[d].gw[1].out = "json"
        /\ chat[callbacks[d].msg] = Edited(callbacks[d])

\* C19: periodic_check_task changes, and the scheduler goes from Running to
\* Stopped or back, only in a step of the enable or of the disable command:
\* /start, a manual check, a cycle of the loop or of a manual check with any
\* outcome, the loop's sleep and every step of an action handler leave both
\* as they are.
C19_OnlyCommandsChangeScheduler ==
    [][(periodic_check_task' # periodic_check_task \/ Running' # Running)
           => (turn_on_periodic_check \/ turn_off_periodic_check)]_vars

\* With the scheduler Running, a manual check was answered, an action handler
\* has run up to its acknowledgment and a cycle of the loop has ended with an
\* exception.
C19_Witness ==
    /\ periodic_check_task # 0 /\ Running
    /\ reply = "checking"
    /\ \E c \in TapIds : callbacks[c].pc = "answer"
    /\ tasks[periodic_check_task].pc = "sleep"
    /\ tasks[periodic_check_task].cyc.res = "raised"

====
